---- MODULE Spec2Model ----
(***************************************************************************)
(* Interactive search session of atuin: the session state machine          *)
(* (core.rs: State, Guard) and the event loop that drives it               *)
(* (tui_shell.rs: history).                                                *)
(*                                                                         *)
(* usize values are kept as two's-complement representatives: an integer   *)
(* x >= 0 stands for x, an integer x < 0 stands for 2^64 + x.  Wrapping    *)
(* addition and subtraction are then plain integer + and -, and the        *)
(* unsigned order and the overflow conditions are the operators below.     *)
(***************************************************************************)
EXTENDS Integers, Sequences, FiniteSets, TLC

\* ---------------------------------------------------------------- bounds
MaxInput == 1
MaxResults == 2
MaxPending == 2

\* The values the inputs are drawn from.
Rows == {0, 2}
ScrollContextLines == {1}
SelectDigits == {1, 2}
Widths == {3}
Compact == {TRUE}
ShowPreview == {TRUE}
SearchModes == {"Fuzzy"}

Chars == {"a"}
Version == "v"

\* ------------------------------------------------------------- usize
ULt(a, b) == IF (a < 0) = (b < 0) THEN a < b ELSE b < 0

UMin(a, b) == IF ULt(b, a) THEN b ELSE a

AddOverflows(a, b) == (a < 0 /\ b < 0) \/ ((a < 0) # (b < 0) /\ a + b >= 0)

SaturatingSub(a, b) == IF ULt(a, b) THEN 0 ELSE a - b

SaturatingAdd(a, b) == IF AddOverflows(a, b) THEN -1 ELSE a + b

\* ------------------------------------------------------------- FilterMode
FilterModeNames == {"Global", "Host", "Session", "Directory"}

FILTER_MODES == <<"Global", "Host", "Session", "Directory">>

\* `self.filter_mode as usize`: the enum's discriminant (declaration order).
FilterModeAsUsize(m) ==
    CASE m = "Global" -> 0
      [] m = "Host" -> 1
      [] m = "Session" -> 2
      [] m = "Directory" -> 3

CycleIndexShort(m) == (FilterModeAsUsize(m) + 1) % (Len(FILTER_MODES) - 1)

CycleIndex(m) == (FilterModeAsUsize(m) + 1) % Len(FILTER_MODES)

\* ------------------------------------------------------------- Cursor
\* The text buffer and its caret: [source |-> sequence of chars, index |-> 0..Len].
Texts == UNION {[1..n -> Chars] : n \in 0..MaxInput}

CursorFrom(s) == [source |-> s, index |-> 0]

CursorEnd(c) == [c EXCEPT !.index = Len(c.source)]

CursorStart(c) == [c EXCEPT !.index = 0]

CursorLeft(c) == IF c.index > 0 THEN [c EXCEPT !.index = c.index - 1] ELSE c

CursorRight(c) == IF c.index < Len(c.source) THEN [c EXCEPT !.index = c.index + 1] ELSE c

CursorInsert(c, ch) ==
    [source |-> SubSeq(c.source, 1, c.index) \o <<ch>>
                  \o SubSeq(c.source, c.index + 1, Len(c.source)),
     index |-> c.index + 1]

CursorRemove(c) ==
    IF c.index < Len(c.source)
    THEN [c EXCEPT !.source = SubSeq(c.source, 1, c.index)
                                \o SubSeq(c.source, c.index + 2, Len(c.source))]
    ELSE c

CursorBack(c) == IF c.index > 0 THEN CursorRemove(CursorLeft(c)) ELSE c

CursorClear(c) == [source |-> <<>>, index |-> 0]

CursorClearToEnd(c) == [c EXCEPT !.source = SubSeq(c.source, 1, c.index)]

CursorClearFromStart(c) ==
    [source |-> SubSeq(c.source, c.index + 1, Len(c.source)), index |-> 0]

\* The model's alphabet holds no word separator, so the word that contains
\* the caret is the whole buffer.
CursorPrevWord(c) == CursorStart(c)

CursorNextWord(c) == CursorEnd(c)

CursorRemovePrevWord(c) == CursorClearFromStart(c)

CursorRemoveNextWord(c) == CursorClearToEnd(c)

\* ------------------------------------------------------------- core::Event
Ev(type, a, b, n) == [type |-> type, a |-> a, b |-> b, n |-> n]

Input(c) == Ev("Input", c, "", 0)

Selection(line, for) == Ev("Selection", line, for, 0)

CursorEv(towards, to) == Ev("Cursor", towards, to, 0)

Delete(towards, to) == Ev("Delete", towards, to, 0)

Clear == Ev("Clear", "", "", 0)

Exit == Ev("Exit", "", "", 0)

Cancel == Ev("Cancel", "", "", 0)

SelectN(n) == Ev("SelectN", "", "", n)

CycleFilterMode == Ev("CycleFilterMode", "", "", 0)

UpdateNeeded(v) == Ev("UpdateNeeded", v, "", 0)

\* ------------------------------------------------------------- State::handle
\* A session state st is
\*   [input, filter_mode, selected, max_entries, history, update_needed].
\* The outcome of handle is Continue(state), Break(result) or a panic.
Continue(st) == [flow |-> "Continue", state |-> st, result |-> <<>>]

Break(st, result) == [flow |-> "Break", state |-> st, result |-> result]

Panic(st) == [flow |-> "Panic", state |-> st, result |-> <<>>]

\* `len - 1` on usize: a panic with overflow checks, a wrap without.
LenMinusOneFails(st, checks) == checks /\ Len(st.history) = 0

\* Event::Selection(Line::Up, For::SingleLine)
SelectUpLineUnclamped(st, checks) ==
    IF checks /\ (AddOverflows(st.selected, 1) \/ LenMinusOneFails(st, checks))
    THEN Panic(st)
    ELSE Continue([st EXCEPT !.selected = st.selected + 1])

SelectUpLine(st, checks) ==
    IF checks /\ (AddOverflows(st.selected, 1) \/ LenMinusOneFails(st, checks))
    THEN Panic(st)
    ELSE Continue([st EXCEPT !.selected = UMin(st.selected + 1, Len(st.history) - 1)])

\* Event::Selection(Line::Down, For::SingleLine)
SelectDownLineClamped(st) ==
    Continue([st EXCEPT !.selected = SaturatingSub(st.selected, 1)])

SelectDownLine(st) ==
    IF ULt(st.selected, 1)
    THEN Break(st, <<>>)
    ELSE Continue([st EXCEPT !.selected = st.selected - 1])

\* scroll_len = max_entries - scroll_context_lines
ScrollLenFails(st, settings, checks) ==
    checks /\ ULt(st.max_entries, settings.scroll_context_lines)

ScrollLen(st, settings) == st.max_entries - settings.scroll_context_lines

\* Event::Selection(Line::Down, For::Page)
SelectDownPage(st, settings, checks) ==
    IF ScrollLenFails(st, settings, checks)
    THEN Panic(st)
    ELSE Continue([st EXCEPT
             !.selected = SaturatingSub(st.selected, ScrollLen(st, settings))])

\* Event::Selection(Line::Up, For::Page)
SelectUpPage(st, settings, checks) ==
    IF \/ ScrollLenFails(st, settings, checks)
       \/ checks /\ AddOverflows(st.selected, ScrollLen(st, settings))
       \/ LenMinusOneFails(st, checks)
    THEN Panic(st)
    ELSE Continue([st EXCEPT
             !.selected = UMin(st.selected + ScrollLen(st, settings),
                               Len(st.history) - 1)])

\* Event::Cancel
CancelResultQuery(st) == st.input.source

CancelResult(st) == <<>>

\* Event::Exit
ExitResultSwapped(st, settings) ==
    IF settings.exit_mode = "ReturnOriginal" THEN st.input.source ELSE <<>>

ExitResult(st, settings) ==
    IF settings.exit_mode = "ReturnOriginal" THEN <<>> ELSE st.input.source

\* Event::SelectN(n): Vec::swap_remove(i) panics unless i < len, and this
\* branch is taken exactly when i >= len.
SelectNIndex(st, n) == SaturatingAdd(st.selected, n)

SelectNOutcome(st, n) ==
    IF ULt(SelectNIndex(st, n), Len(st.history))
    THEN Break(st, st.input.source)
    ELSE Panic(st)

\* Event::UpdateNeeded(version)
SetUpdateNeededAndClear(st, version) ==
    [st EXCEPT !.update_needed = version, !.input = CursorClear(st.input)]

SetUpdateNeeded(st, version) == [st EXCEPT !.update_needed = version]

\* Event::CycleFilterMode
CycleFilterRefreshing(st) ==
    [st EXCEPT !.filter_mode = FILTER_MODES[CycleIndex(st.filter_mode) + 1],
               !.history = <<>>, !.selected = 0]

CycleFilter(st) == [st EXCEPT !.filter_mode = FILTER_MODES[CycleIndex(st.filter_mode) + 1]]

EditInput(st, ev) ==
    CASE ev.type = "Input" -> CursorInsert(st.input, ev.a)
      [] ev.type = "Clear" -> CursorClear(st.input)
      [] ev.type = "Cursor" /\ ev.a = "Left" /\ ev.b = "Char" -> CursorLeft(st.input)
      [] ev.type = "Cursor" /\ ev.a = "Right" /\ ev.b = "Char" -> CursorRight(st.input)
      [] ev.type = "Cursor" /\ ev.a = "Left" /\ ev.b = "Word" -> CursorPrevWord(st.input)
      [] ev.type = "Cursor" /\ ev.a = "Right" /\ ev.b = "Word" -> CursorNextWord(st.input)
      [] ev.type = "Cursor" /\ ev.a = "Left" /\ ev.b = "Edge" -> CursorStart(st.input)
      [] ev.type = "Cursor" /\ ev.a = "Right" /\ ev.b = "Edge" -> CursorEnd(st.input)
      [] ev.type = "Delete" /\ ev.a = "Left" /\ ev.b = "Word" -> CursorRemovePrevWord(st.input)
      [] ev.type = "Delete" /\ ev.a = "Left" /\ ev.b = "Char" -> CursorBack(st.input)
      [] ev.type = "Delete" /\ ev.a = "Left" /\ ev.b = "Edge" -> CursorClearFromStart(st.input)
      [] ev.type = "Delete" /\ ev.a = "Right" /\ ev.b = "Word" -> CursorRemoveNextWord(st.input)
      [] ev.type = "Delete" /\ ev.a = "Right" /\ ev.b = "Char" -> CursorRemove(st.input)
      [] ev.type = "Delete" /\ ev.a = "Right" /\ ev.b = "Edge" -> CursorClearToEnd(st.input)

Handle(st, ev, settings, checks) ==
    CASE ev.type = "Selection" /\ ev.a = "Up" /\ ev.b = "SingleLine" ->
             SelectUpLine(st, checks)
      [] ev.type = "Selection" /\ ev.a = "Down" /\ ev.b = "SingleLine" ->
             SelectDownLine(st)
      [] ev.type = "Selection" /\ ev.a = "Down" /\ ev.b = "Page" ->
             SelectDownPage(st, settings, checks)
      [] ev.type = "Selection" /\ ev.a = "Up" /\ ev.b = "Page" ->
             SelectUpPage(st, settings, checks)
      [] ev.type \in {"Input", "Clear", "Cursor", "Delete"} ->
             Continue([st EXCEPT !.input = EditInput(st, ev)])
      [] ev.type = "Cancel" -> Break(st, CancelResult(st))
      [] ev.type = "Exit" -> Break(st, ExitResult(st, settings))
      [] ev.type = "SelectN" -> SelectNOutcome(st, ev.n)
      [] ev.type = "UpdateNeeded" -> Continue(SetUpdateNeeded(st, ev.a))
      [] ev.type = "CycleFilterMode" -> Continue(CycleFilter(st))

\* Guard::handle forwards to State::handle and keeps the snapshot.
GuardHandle(st, ev, settings, checks) == Handle(st, ev, settings, checks)

\* ------------------------------------------------------------- raw input
\* crossterm events: [kind, code, ch, ctrl, alt].
Raw(kind, code, ch, ctrl, alt) ==
    [kind |-> kind, code |-> code, ch |-> ch, ctrl |-> ctrl, alt |-> alt]

Key(code, ctrl, alt) == Raw("Key", code, "", ctrl, alt)

KeyChar(ch, ctrl, alt) == Raw("Key", "Char", ch, ctrl, alt)

Digits == <<"1", "2", "3", "4", "5", "6", "7", "8", "9">>

ToDigit(ch) == CHOOSE d \in 1..Len(Digits) : Digits[d] = ch

IsDigit(ch) == \E d \in 1..Len(Digits) : Digits[d] = ch

Skip == Ev("Skip", "", "", 0)

\* impl TryFrom<MouseEvent> for core::Event
TryFromMouseAny(raw) ==
    CASE raw.code = "ScrollUp" -> Selection("Up", "SingleLine")
      [] OTHER -> Selection("Down", "SingleLine")

TryFromMouse(raw) ==
    CASE raw.code = "ScrollDown" -> Selection("Down", "SingleLine")
      [] raw.code = "ScrollUp" -> Selection("Up", "SingleLine")
      [] OTHER -> Skip

\* impl TryFrom<KeyEvent> for core::Event; the arms are tried in order.
TryFromKey(raw) ==
    LET ctrl == raw.ctrl
        alt == raw.alt
        code == raw.code
        ch == raw.ch
    IN  IF code = "Char" /\ ch \in {"c", "d", "g"} /\ ctrl THEN Cancel
        ELSE IF code = "Esc" THEN Exit
        ELSE IF code = "Enter" THEN SelectN(0)
        ELSE IF code = "Char" /\ IsDigit(ch) /\ alt THEN SelectN(ToDigit(ch))
        ELSE IF code = "Left" /\ ctrl THEN CursorEv("Left", "Word")
        ELSE IF code = "Left" THEN CursorEv("Left", "Char")
        ELSE IF code = "Char" /\ ch = "h" /\ ctrl THEN CursorEv("Left", "Char")
        ELSE IF code = "Right" /\ ctrl THEN CursorEv("Right", "Word")
        ELSE IF code = "Right" THEN CursorEv("Right", "Char")
        ELSE IF code = "Char" /\ ch = "l" /\ ctrl THEN CursorEv("Right", "Char")
        ELSE IF code = "Char" /\ ch = "a" /\ ctrl THEN CursorEv("Left", "Edge")
        ELSE IF code = "Home" THEN CursorEv("Left", "Edge")
        ELSE IF code = "Char" /\ ch = "e" /\ ctrl THEN CursorEv("Right", "Edge")
        ELSE IF code = "End" THEN CursorEv("Right", "Edge")
        ELSE IF code = "Backspace" /\ ctrl THEN Delete("Left", "Word")
        ELSE IF code = "Backspace" THEN Delete("Left", "Char")
        ELSE IF code = "Delete" /\ ctrl THEN Delete("Right", "Word")
        ELSE IF code = "Delete" THEN Delete("Right", "Char")
        ELSE IF code = "Char" /\ ch = "w" /\ ctrl THEN Delete("Left", "Word")
        ELSE IF code = "Char" /\ ch = "u" /\ ctrl THEN Clear
        ELSE IF code = "Char" /\ ch = "r" /\ ctrl THEN CycleFilterMode
        ELSE IF code = "Down" THEN Selection("Down", "SingleLine")
        ELSE IF code = "Char" /\ ch \in {"n", "j"} /\ ctrl THEN Selection("Down", "SingleLine")
        ELSE IF code = "Up" THEN Selection("Up", "SingleLine")
        ELSE IF code = "Char" /\ ch \in {"p", "k"} /\ ctrl THEN Selection("Up", "SingleLine")
        ELSE IF code = "Char" THEN Input(ch)
        ELSE IF code = "PageDown" THEN Selection("Down", "Page")
        ELSE IF code = "PageUp" THEN Selection("Up", "Page")
        ELSE Skip

\* impl TryFrom<Event> for core::Event
TryFrom(raw) ==
    CASE raw.kind = "Key" -> TryFromKey(raw)
      [] raw.kind = "Mouse" -> TryFromMouse(raw)
      [] raw.kind \in {"FocusGained", "FocusLost", "Paste", "Resize"} -> Skip

\* The raw inputs the terminal delivers in the model.
RawInputs ==
    {KeyChar(c, FALSE, FALSE) : c \in Chars}
    \cup {KeyChar(c, TRUE, FALSE) :
            c \in {"c", "h", "l", "a", "e", "w", "u", "r", "n", "p"}}
    \cup {KeyChar(Digits[d], FALSE, TRUE) : d \in SelectDigits}
    \cup {Key(k, FALSE, FALSE) :
            k \in {"Esc", "Enter", "Left", "Right", "Home", "End", "Backspace",
                   "Delete", "Down", "Up", "PageDown", "PageUp", "Tab"}}
    \cup {Key(k, TRUE, FALSE) : k \in {"Left", "Right", "Backspace", "Delete"}}
    \cup {Raw("Mouse", k, "", FALSE, FALSE) : k \in {"ScrollDown", "ScrollUp", "Down"}}
    \cup {Raw(k, "", "", FALSE, FALSE) :
            k \in {"FocusGained", "FocusLost", "Paste", "Resize"}}

\* What event::read() followed by core::Event::try_from can yield: an event,
\* or Skip for a raw input that is dropped.
Delivered == {TryFrom(raw) : raw \in RawInputs}

\* A buffered raw input whose content is left open until it is read.
Unread == Raw("Unread", "", "", FALSE, FALSE)

\* event::read(): the terminal hands out the buffered inputs first in, first out.
NextRawLast(buffer) == buffer[Len(buffer)]

NextRaw(buffer) == Head(buffer)

RestRaw(buffer) == Tail(buffer)

\* The events that reading raw and converting it may yield.
Read(raw) == IF raw = Unread THEN Delivered ELSE {TryFrom(raw)}

\* event::poll(Duration::ZERO): something is buffered.
PollZero(buffer) == buffer # <<>>

\* ------------------------------------------------------------- storage
\* A History record is its command, a sequence of characters.
Command(k) == [i \in 1..k |-> "c"]

\* What the storage collaborator may answer to list(..) or search(..).
DbAnswers == {[i \in 1..n |-> Command(i)] : n \in 0..MaxResults}

\* The limit State::refresh_query passes to the storage.
Limit == 200

NoRequest ==
    [op |-> "None", search_mode |-> "None", filter_mode |-> "None",
     query |-> <<>>, limit |-> 0]

\* The call State::refresh_query makes: list(..) when the query text is empty,
\* search(..) otherwise.
RefreshRequestAlwaysList(st, cfg) ==
    [op |-> "list", search_mode |-> "None", filter_mode |-> st.filter_mode,
     query |-> <<>>, limit |-> Limit]

RefreshRequest(st, cfg) ==
    IF st.input.source = <<>>
    THEN [op |-> "list", search_mode |-> "None", filter_mode |-> st.filter_mode,
          query |-> <<>>, limit |-> Limit]
    ELSE [op |-> "search", search_mode |-> cfg.search_mode,
          filter_mode |-> st.filter_mode, query |-> st.input.source,
          limit |-> Limit]

\* The storage answers a call with at most `limit` records.
Answers(req) == {answer \in DbAnswers : Len(answer) <= req.limit}

\* ------------------------------------------------------------- layout
U16(x) == x % 65536

\* app.history.iter().map(|h| h.command.len()).max().unwrap_or_default()
LongestCommand(history) ==
    IF history = <<>>
    THEN 0
    ELSE CHOOSE m \in {Len(history[i]) : i \in DOMAIN history} :
            \A i \in DOMAIN history : Len(history[i]) <= m

\* preview_height as terminal.draw computes it from the frame's width.
PreviewHeight(longest, width, compact, show_preview) ==
    LET border_size == IF compact THEN 0 ELSE 1
        preview_width == U16(width - 2)
        w == U16(preview_width - border_size)
        lines == U16(U16(longest) + w - 1) \div w
    IN  IF show_preview
        THEN U16((IF lines < 4 THEN lines ELSE 4) + border_size * 2)
        ELSE border_size

\* UILayout::new(size, compact, preview_height): the preview pane gets the
\* height asked for.
UILayout(size, compact, preview_height) ==
    [size |-> size, compact |-> compact, preview_height |-> preview_height]

\* Option<UILayout>: None is the empty sequence, Some(l) is <<l>>.
None == <<>>

Some(l) == <<l>>

\* The cached layout is kept unless the size or the preview height changed.
KeptLayout(cached, size, preview_height, show_preview) ==
    IF /\ cached # None
       /\ \/ cached[1].size # size
          \/ show_preview /\ cached[1].preview_height # preview_height
    THEN None
    ELSE cached

\* layout.get_or_insert(UILayout::new(..))
GetOrInsert(cached, fresh) == IF cached = None THEN Some(fresh) ELSE cached

\* ------------------------------------------------------------- the program
VARIABLES
    pc,           \* position of `history` (tui_shell.rs)
    app,          \* core::State
    settings,     \* Settings: exit_mode, scroll_context_lines
    checks,       \* TRUE iff the build has overflow checks
    batch,        \* core::Guard: initial_input, initial_filter_mode
    event,        \* the event whose handling did not return Continue
    pending,      \* raw events buffered by the terminal, in arrival order
    notif,        \* the version check: "pending" or "done"
    term,         \* the terminal's mode: raw, alt(ernate screen), mouse
    layout,       \* the cached layout, an Option<UILayout>
    did_update,   \* what the last Guard::finish reported
    refreshes,    \* refreshes issued by Guard::finish in this iteration
    outcome,      \* "running", "ok", "err" or "panic"
    result,       \* the string returned when outcome = "ok"
    run,          \* what a specification of one part of the program records
                  \* of its run (constant in Spec)
    request,      \* the last call State::refresh_query made to the storage
    longest_command  \* the local of that name in `history`

vars == <<pc, app, settings, checks, batch, event, pending, notif, term,
          layout, did_update, refreshes, outcome, result, run, request,
          longest_command>>

NoEvent == Ev("None", "", "", 0)

NoBatch == [initial_input |-> <<>>, initial_filter_mode |-> "None"]

ExitModes == {"ReturnOriginal", "ReturnQuery"}

\* State::new, up to the first refresh_query: the cursor at the end of the
\* query, the filter mode the settings select, an empty Vec, ListState::default().
InitialFilterMode(filter_mode, shell_up_key_binding, filter_mode_shell_up) ==
    IF shell_up_key_binding
    THEN IF filter_mode_shell_up = "None" THEN filter_mode ELSE filter_mode_shell_up
    ELSE filter_mode

NewState(query, filter_mode) ==
    [input |-> CursorEnd(CursorFrom(query)),
     filter_mode |-> filter_mode,
     selected |-> 0,
     max_entries |-> 0,
     history |-> <<>>,
     update_needed |-> "None"]

Init ==
    /\ pc = "stdout_new"
    /\ \E query \in Texts, fm \in FilterModeNames, up \in BOOLEAN,
          upfm \in FilterModeNames \cup {"None"} :
            app = NewState(query, InitialFilterMode(fm, up, upfm))
    /\ settings \in [exit_mode : ExitModes,
                     scroll_context_lines : ScrollContextLines,
                     search_mode : SearchModes, show_preview : ShowPreview]
    /\ checks \in BOOLEAN
    /\ batch = NoBatch
    /\ event = NoEvent
    /\ pending = <<>>
    /\ notif = "pending"
    /\ term = [raw |-> FALSE, alt |-> FALSE, mouse |-> FALSE, guard |-> FALSE,
               drop |-> "no"]
    /\ layout = None
    /\ did_update = FALSE
    /\ refreshes = 0
    /\ outcome = "running"
    /\ result = <<>>
    /\ run = <<>>
    /\ request = NoRequest
    /\ longest_command = 0

\* The session once `history` is left: it is dropped with the other locals
\* (batch keeps the last snapshot that was taken).
Gone == NewState(<<>>, "None")

\* `return`, `?` on an Err, or a panic: the function is left with outcome how
\* (and result res), its locals are dropped, and the Stdout value, if it was
\* built, runs its Drop.
Leave(how, res, ev, n) ==
    /\ outcome' = how
    /\ result' = res
    /\ event' = ev
    /\ refreshes' = n
    /\ pc' = IF term.guard THEN "drop" ELSE "done"
    /\ app' = Gone
    /\ layout' = None
    /\ notif' = "done"
    /\ did_update' = FALSE
    /\ request' = NoRequest
    /\ longest_command' = 0
    /\ UNCHANGED <<settings, checks, batch>>

Fail == Leave("err", <<>>, NoEvent, refreshes) /\ pending' = pending

\* Stdout::new: enable_raw_mode()?, then execute!(EnterAlternateScreen,
\* EnableMouseCapture)?.  The Stdout value exists only when both succeed.
StdoutNew ==
    /\ pc = "stdout_new"
    /\ run' = run
    /\ \/ /\ term' = term
          /\ Fail
       \/ /\ \E alt \in BOOLEAN, mouse \in BOOLEAN :
                /\ mouse => alt
                /\ term' = [term EXCEPT !.raw = TRUE, !.alt = alt, !.mouse = mouse]
          /\ Fail
       \/ /\ term' = [term EXCEPT !.raw = TRUE, !.alt = TRUE, !.mouse = TRUE,
                                   !.guard = TRUE]
          /\ pc' = "terminal_new"
          /\ UNCHANGED <<app, settings, checks, batch, event, pending, notif,
                         layout, did_update, refreshes, outcome, result,
                         request, longest_command>>

\* Terminal::new(backend)?
TerminalNew ==
    /\ pc = "terminal_new"
    /\ run' = run
    /\ term' = term
    /\ \/ Fail
       \/ /\ pc' = "state_new"
          /\ UNCHANGED <<app, settings, checks, batch, event, pending, notif,
                         layout, did_update, refreshes, outcome, result,
                         request, longest_command>>

\* State::refresh_query: the result list is replaced by the storage's answer
\* and the selection is reset.
RefreshQuery(st, answer) == [st EXCEPT !.history = answer, !.selected = 0]

\* core::State::new(..).await?: history_count, then the first refresh_query;
\* then `history` takes the longest command of the list it got.
StateNew ==
    /\ pc = "state_new"
    /\ run' = run
    /\ term' = term
    /\ \/ Fail
       \/ \E answer \in Answers(RefreshRequest(app, settings)) :
            /\ app' = RefreshQuery(app, answer)
            /\ request' = RefreshRequest(app, settings)
            /\ longest_command' = LongestCommand(answer)
            /\ pc' = "render"
            /\ UNCHANGED <<settings, checks, batch, event, pending, notif, layout,
                           did_update, refreshes, outcome, result>>

\* UILayout::render_preview indexes view.history[selected].
PreviewInBounds(st) == ULt(st.selected, Len(st.history))

\* State::start_batch
StartBatch(st) ==
    [initial_input |-> st.input.source, initial_filter_mode |-> st.filter_mode]

\* One pass of the loop up to the select!: terminal.draw (which fills the
\* layout cache and sets the number of visible rows), spawn_blocking(poll),
\* start_batch.  A new pass starts: its did_update is not yet assigned.
Render ==
    /\ pc = "render"
    /\ run' = run
    /\ term' = term
    /\ \/ Fail
       \/ /\ ~PreviewInBounds(app)
          /\ Leave("panic", <<>>, NoEvent, refreshes)
          /\ pending' = pending
       \/ /\ PreviewInBounds(app)
          /\ \E rows \in Rows, width \in Widths, compact \in Compact :
                LET size == <<width, rows>>
                    preview_height == PreviewHeight(longest_command, width, compact,
                                                    settings.show_preview)
                    kept == KeptLayout(layout, size, preview_height,
                                       settings.show_preview)
                IN  /\ app' = [app EXCEPT !.max_entries = rows]
                    /\ layout' = GetOrInsert(kept, UILayout(size, compact,
                                                            preview_height))
          /\ batch' = StartBatch(app)
          /\ refreshes' = 0
          /\ did_update' = FALSE
          /\ pc' = "select"
          /\ UNCHANGED <<settings, checks, event, pending, notif, outcome, result,
                         request, longest_command>>

\* A raw event reaches the terminal's buffer.  The loop looks at the buffer
\* only while it waits or drains, so arrivals are taken there.
Arrive ==
    /\ pc \in {"select", "drain"}
    /\ run' = run
    /\ Len(pending) < MaxPending
    /\ pending' = Append(pending, Unread)
    /\ UNCHANGED <<pc, app, settings, checks, batch, event, notif, term, layout,
                   did_update, refreshes, outcome, result,
                   request, longest_command>>

\* Where the loop goes with the outcome of Guard::handle.
AfterHandleIgnoringBreak(flow, next) ==
    IF flow = "Panic" THEN "leave" ELSE next

AfterHandle(flow, next) ==
    IF flow = "Continue" THEN next ELSE "leave"

\* batch.handle(event) and the match on its ControlFlow.
Apply(ev, next, nt) ==
    LET out == GuardHandle(app, ev, settings, checks)
        to == AfterHandle(out.flow, next)
    IN  IF to = "leave"
        THEN Leave(IF out.flow = "Panic" THEN "panic" ELSE "ok", out.result, ev,
                   refreshes)
        ELSE /\ app' = out.state
             /\ event' = IF out.flow = "Continue" THEN NoEvent ELSE ev
             /\ pc' = to
             /\ notif' = nt
             /\ UNCHANGED <<settings, checks, batch, layout, did_update, refreshes,
                            outcome, result,
                            request, longest_command>>

\* event::poll(Duration::from_millis(250)) returns when input is buffered or
\* when the 250 ms have passed.
PollReportsOnInput(buffer) == buffer # <<>>

PollReports(buffer) == TRUE

\* select!, first branch: the blocking poll(250ms) reports.
PollReady ==
    /\ pc = "select"
    /\ PollReports(pending)
    /\ run' = run
    /\ term' = term
    /\ \/ Fail
       \/ /\ pc' = IF pending # <<>> THEN "drain" ELSE "finish"
          /\ UNCHANGED <<app, settings, checks, batch, event, pending, notif,
                         layout, did_update, refreshes, outcome, result,
                         request, longest_command>>

\* select!, second branch: the version check resolves to Some(version).
NotifySome ==
    /\ pc = "select"
    /\ run' = run
    /\ notif = "pending"
    /\ Apply(UpdateNeeded(Version), "finish", "done")
    /\ UNCHANGED <<pending, term>>

\* The version check resolves to None: the branch is disabled for good.
NotifyNone ==
    /\ pc = "select"
    /\ run' = run
    /\ notif = "pending"
    /\ notif' = "done"
    /\ UNCHANGED <<pc, app, settings, checks, batch, event, pending, term, layout,
                   did_update, refreshes, outcome, result,
                   request, longest_command>>

\* One pass of the drain loop: poll(Duration::ZERO)?, read()?, try_from, and
\* batch.handle(event) with the match on its ControlFlow.
Drain ==
    /\ pc = "drain"
    /\ run' = run
    /\ term' = term
    /\ \/ Fail
       \/ /\ ~PollZero(pending)
          /\ pc' = "finish"
          /\ UNCHANGED <<app, settings, checks, batch, event, pending, notif,
                         layout, did_update, refreshes, outcome, result,
                         request, longest_command>>
       \/ /\ PollZero(pending)
          /\ \E ev \in Read(NextRaw(pending)) :
                   /\ ev.type = "Input" => Len(app.input.source) < MaxInput
                   /\ IF ev = Skip
                      THEN UNCHANGED <<pc, app, settings, checks, batch, event,
                                       notif, layout, did_update, refreshes,
                                       outcome, result,
                                       request, longest_command>>
                      ELSE Apply(ev, "drain", notif)
          /\ pending' = RestRaw(pending)

\* Guard::finish: should_update
ShouldUpdateTextOnly(g, st) == g.initial_input # st.input.source

ShouldUpdateFilterOnly(g, st) == g.initial_filter_mode # st.filter_mode

ShouldUpdate(g, st) ==
    g.initial_input # st.input.source \/ g.initial_filter_mode # st.filter_mode

\* The `?` on batch.finish().await: where the loop goes with the refresh's result.
AfterRefreshContinue(res) == "render"

AfterRefresh(res) == IF res = "Err" THEN "leave" ELSE "render"

\* batch.finish().await? and layout.take()
Finish ==
    /\ pc = "finish"
    /\ run' = run
    /\ term' = term
    /\ IF ShouldUpdate(batch, app)
       THEN \/ IF AfterRefresh("Err") = "leave"
               THEN Leave("err", <<>>, NoEvent, refreshes + 1) /\ pending' = pending
               ELSE /\ pc' = AfterRefresh("Err")
                    /\ refreshes' = refreshes + 1
                    /\ UNCHANGED <<app, settings, checks, batch, event, pending,
                                   notif, layout, did_update, outcome, result,
                                   request, longest_command>>
            \/ \E answer \in Answers(RefreshRequest(app, settings)) :
                 /\ app' = RefreshQuery(app, answer)
                 /\ request' = RefreshRequest(app, settings)
                 /\ refreshes' = refreshes + 1
                 /\ did_update' = TRUE
                 /\ layout' = None
                 /\ pc' = AfterRefresh("Ok")
                 /\ UNCHANGED <<settings, checks, batch, event, pending, notif,
                                outcome, result, longest_command>>
       ELSE /\ did_update' = FALSE
            /\ pc' = "render"
            /\ UNCHANGED <<app, settings, checks, batch, event, pending, notif,
                           layout, refreshes, outcome, result,
                           request, longest_command>>

\* Drop for Stdout: execute!(LeaveAlternateScreen, DisableMouseCapture).unwrap(),
\* then disable_raw_mode().unwrap().  A failed unwrap panics and the rest of
\* the restoration is skipped.
Drop ==
    /\ pc = "drop"
    /\ run' = run
    /\ pc' = "done"
    /\ \/ \E alt \in BOOLEAN, mouse \in BOOLEAN :
            /\ alt => mouse
            /\ term' = [term EXCEPT !.alt = alt, !.mouse = mouse, !.guard = FALSE,
                                    !.drop = "panic"]
       \/ term' = [term EXCEPT !.alt = FALSE, !.mouse = FALSE, !.guard = FALSE,
                               !.drop = "panic"]
       \/ term' = [raw |-> FALSE, alt |-> FALSE, mouse |-> FALSE, guard |-> FALSE,
                   drop |-> "ok"]
    /\ UNCHANGED <<app, settings, checks, batch, event, pending, notif, layout,
                   did_update, refreshes, outcome, result,
                   request, longest_command>>

Next ==
    \/ StdoutNew
    \/ TerminalNew
    \/ StateNew
    \/ Render
    \/ Arrive
    \/ PollReady
    \/ NotifySome
    \/ NotifyNone
    \/ Drain
    \/ Finish
    \/ Drop

Spec == Init /\ [][Next]_vars

\* ------------------------------------------------------------- handle alone
\* State::handle(Event::CycleFilterMode) applied over and over to a session
\* as the first render leaves it.
InitCycle ==
    /\ pc = "select"
    /\ settings \in [exit_mode : ExitModes,
                     scroll_context_lines : ScrollContextLines,
                     search_mode : SearchModes, show_preview : ShowPreview]
    /\ \E query \in Texts, fm \in FilterModeNames, answer \in DbAnswers,
          rows \in Rows, width \in Widths, compact \in Compact :
            /\ answer # <<>>
            /\ app = [RefreshQuery(NewState(query, fm), answer)
                        EXCEPT !.max_entries = rows]
            /\ batch = StartBatch(app)
            /\ run = <<fm>>
            /\ request = RefreshRequest(app, settings)
            /\ longest_command = LongestCommand(answer)
            /\ layout = Some(UILayout(<<width, rows>>, compact,
                                      PreviewHeight(longest_command, width, compact,
                                                    settings.show_preview)))
    /\ checks \in BOOLEAN
    /\ event = NoEvent
    /\ pending = <<>>
    /\ notif = "pending"
    /\ term = [raw |-> TRUE, alt |-> TRUE, mouse |-> TRUE, guard |-> TRUE,
               drop |-> "no"]
    /\ did_update = FALSE
    /\ refreshes = 0
    /\ outcome = "running"
    /\ result = <<>>

CycleStep ==
    /\ Len(run) <= Len(FILTER_MODES)
    /\ LET out == GuardHandle(app, CycleFilterMode, settings, checks)
       IN  /\ out.flow = "Continue"
           /\ app' = out.state
           /\ run' = Append(run, out.state.filter_mode)
    /\ UNCHANGED <<pc, settings, checks, batch, event, pending, notif, term,
                   layout, did_update, refreshes, outcome, result,
                   request, longest_command>>

NextCycle == CycleStep

SpecCycle == InitCycle /\ [][NextCycle]_vars

\* ------------------------------------------------------------- drain alone
\* The raw inputs the buffer holds when its content is tracked.
QueueInputs ==
    {KeyChar("a", FALSE, FALSE), KeyChar("u", TRUE, FALSE),
     KeyChar("r", TRUE, FALSE), Key("Up", FALSE, FALSE), Key("Down", FALSE, FALSE),
     Key("Esc", FALSE, FALSE), Key("Backspace", FALSE, FALSE),
     Key("Tab", FALSE, FALSE), Raw("Mouse", "Down", "", FALSE, FALSE),
     Raw("Resize", "", "", FALSE, FALSE)}

Queues == UNION {[1..n -> QueueInputs] : n \in 1..MaxPending}

\* One pass of the loop from the moment the blocking poll has reported input:
\* the session as a render leaves it, and the raw inputs that have arrived.
\* run keeps that session and the arrivals.
InitQueue ==
    /\ pc = "drain"
    /\ settings \in [exit_mode : ExitModes,
                     scroll_context_lines : ScrollContextLines,
                     search_mode : SearchModes, show_preview : ShowPreview]
    /\ checks \in BOOLEAN
    /\ \E query \in Texts, fm \in FilterModeNames, rows \in Rows,
          width \in Widths, compact \in Compact :
            LET first == NewState(query, fm)
                answer == [i \in 1..MaxResults |-> Command(i)]
            IN  /\ app = [RefreshQuery(first, answer) EXCEPT !.max_entries = rows]
                /\ request = RefreshRequest(first, settings)
                /\ longest_command = LongestCommand(answer)
                /\ layout = Some(UILayout(<<width, rows>>, compact,
                                          PreviewHeight(longest_command, width,
                                                        compact,
                                                        settings.show_preview)))
    /\ batch = StartBatch(app)
    /\ pending \in Queues
    /\ run = [session |-> app, arrived |-> pending]
    /\ event = NoEvent
    /\ notif = "pending"
    /\ term = [raw |-> TRUE, alt |-> TRUE, mouse |-> TRUE, guard |-> TRUE,
               drop |-> "no"]
    /\ did_update = FALSE
    /\ refreshes = 0
    /\ outcome = "running"
    /\ result = <<>>

NextQueue ==
    \/ Drain
    \/ Finish

SpecQueue == InitQueue /\ [][NextQueue]_vars

\* ------------------------------------------------------------- no input
\* The program when no raw input ever arrives.  The main task is scheduled
\* (it renders and commits when it can) and so is the worker of the blocking
\* poll.
NextIdle ==
    \/ StdoutNew
    \/ TerminalNew
    \/ StateNew
    \/ Render
    \/ PollReady
    \/ NotifySome
    \/ NotifyNone
    \/ Finish
    \/ Drop

SpecIdle ==
    /\ Init
    /\ [][NextIdle]_vars
    /\ WF_vars(Render)
    /\ WF_vars(PollReady)
    /\ WF_vars(Finish)

\* ------------------------------------------------------------- one event
\* Guard::handle applied once to a session as State::new and a first layout
\* pass leave it, the result list possibly empty.
InitHandle ==
    /\ pc = "select"
    /\ settings \in [exit_mode : ExitModes,
                     scroll_context_lines : ScrollContextLines,
                     search_mode : SearchModes, show_preview : ShowPreview]
    /\ checks \in BOOLEAN
    /\ \E query \in Texts, fm \in FilterModeNames, answer \in DbAnswers,
          rows \in Rows, width \in Widths, compact \in Compact :
            /\ app = [RefreshQuery(NewState(query, fm), answer)
                        EXCEPT !.max_entries = rows]
            /\ request = RefreshRequest(app, settings)
            /\ longest_command = LongestCommand(answer)
            /\ layout = Some(UILayout(<<width, rows>>, compact,
                                      PreviewHeight(longest_command, width, compact,
                                                    settings.show_preview)))
    /\ batch = StartBatch(app)
    /\ run = app
    /\ event = NoEvent
    /\ pending = <<>>
    /\ notif = "pending"
    /\ term = [raw |-> TRUE, alt |-> TRUE, mouse |-> TRUE, guard |-> TRUE,
               drop |-> "no"]
    /\ did_update = FALSE
    /\ refreshes = 0
    /\ outcome = "running"
    /\ result = <<>>

HandleStep ==
    /\ event = NoEvent
    /\ \E ev \in Delivered \ {Skip} :
          LET out == GuardHandle(app, ev, settings, checks)
          IN  /\ ev.type = "Input" => Len(app.input.source) < MaxInput
              /\ app' = out.state
              /\ event' = ev
              /\ result' = out.result
              /\ outcome' = CASE out.flow = "Continue" -> "running"
                               [] out.flow = "Break" -> "ok"
                               [] out.flow = "Panic" -> "panic"
    /\ UNCHANGED <<pc, settings, checks, batch, pending, notif, term, layout,
                   did_update, refreshes, run, request, longest_command>>

NextHandle == HandleStep

SpecHandle == InitHandle /\ [][NextHandle]_vars

\* ------------------------------------------------------------- properties
\* The loop is between its first render and its exit.
InLoop == pc \in {"render", "select", "drain", "finish"}

\* A batch is open: events may be handed to Guard::handle.
BatchOpen == pc \in {"select", "drain"}

\* The step handled an event that did not return Continue.
Ends(ev) == event = NoEvent /\ event' = ev

\* C1: Guard::finish refreshes the result list if and only if the query text
\* or the filter mode at commit differs from the snapshot start_batch took,
\* never more than once, and the boolean it reports says whether it did.
C1_FinishRefreshesIffChanged ==
    (pc = "render" /\ batch # NoBatch) =>
        /\ refreshes \in {0, 1}
        /\ (refreshes = 1) <=> (\/ batch.initial_input # app.input.source
                                \/ batch.initial_filter_mode # app.filter_mode)
        /\ did_update <=> (refreshes = 1)

\* A commit refreshed although the text is the snapshot's: the filter mode moved.
C1_Witness ==
    /\ pc = "render"
    /\ batch # NoBatch
    /\ refreshes = 1
    /\ did_update
    /\ batch.initial_input = app.input.source
    /\ batch.initial_filter_mode # app.filter_mode

\* C2: with a non-empty result list the selection index is within
\* [0, len - 1] in every state of the loop, and every Selection event that
\* leaves the session open leaves it there.
SelectionEvents ==
    {Selection(l, f) : l \in {"Up", "Down"}, f \in {"SingleLine", "Page"}}

InRange(st) == st.selected >= 0 /\ st.selected <= Len(st.history) - 1

C2_SelectionInRange ==
    (InLoop /\ Len(app.history) > 0) =>
        /\ InRange(app)
        /\ BatchOpen =>
             \A ev \in SelectionEvents :
                LET out == GuardHandle(app, ev, settings, checks)
                IN  out.flow = "Continue" => InRange(out.state)

\* The selection sits on the last of several records: only Selection events
\* move it off 0.
C2_Witness ==
    /\ pc = "drain"
    /\ Len(app.history) > 1
    /\ app.selected = Len(app.history) - 1

\* C3: at most one refresh is issued per pass of the loop, only by the commit
\* (Guard::finish), and handling an event neither refreshes nor changes the
\* result list.
C3_OneRefreshPerIteration ==
    /\ [](refreshes <= 1)
    /\ [][refreshes' # refreshes /\ refreshes' > 0 => pc = "finish"]_vars
    /\ [][BatchOpen /\ pc' \in {"select", "drain", "finish"} =>
            /\ app'.history = app.history
            /\ refreshes' = refreshes
            /\ refreshes = 0]_vars

\* One commit, one refresh, after a pass in which both the text and the
\* filter mode were changed.
C3_Witness ==
    /\ pc = "render"
    /\ refreshes = 1
    /\ batch # NoBatch
    /\ batch.initial_input # app.input.source
    /\ batch.initial_filter_mode # app.filter_mode

\* C4: SelectN(n) always ends the session with a string: the query text when
\* i = sel + n (saturating) is below len, else the command of the record at
\* index i.
C4_SelectNReturnsString ==
    [][\A n \in 0..9 : Ends(SelectN(n)) =>
          LET i == SelectNIndex(app, n)
          IN  /\ outcome' = "ok"
              /\ result' = IF ULt(i, Len(app.history))
                           THEN app.input.source
                           ELSE app.history[i + 1]]_vars

\* C5: whenever `history` has been left, raw mode, the alternate screen and
\* mouse capture are released.
C5_TerminalRestored ==
    pc = "done" => ~term.raw /\ ~term.alt /\ ~term.mouse

\* C6: the step in which an event yields a terminal result leaves the loop
\* with that result; nothing is committed, and from then on no event is
\* applied, nothing is refreshed and nothing is rendered.
TerminalEvents == {Cancel, Exit, Selection("Down", "SingleLine")}
                      \cup {SelectN(n) : n \in 0..9}

C6_BreakLeavesAtOnce ==
    /\ [][\A ev \in TerminalEvents : Ends(ev) =>
            LET out == GuardHandle(app, ev, settings, checks)
            IN  out.flow = "Break" =>
                  /\ pc' \in {"drop", "done"}
                  /\ outcome' = "ok"
                  /\ result' = out.result
                  /\ refreshes' = refreshes]_vars
    /\ [][event # NoEvent =>
            /\ pc' \in {"drop", "done"}
            /\ UNCHANGED <<app, event, pending, refreshes, layout, outcome, result>>]_vars

\* The loop was left on a terminal result with a later event still buffered.
C6_Witness ==
    /\ pc = "done"
    /\ event \in TerminalEvents
    /\ outcome = "ok"
    /\ pending # <<>>
    /\ refreshes = 0

\* C7: Selection(Down, SingleLine) ends the session with the empty string
\* when the selection is 0, and otherwise moves it down by exactly one and
\* leaves the session open.
C7_DownLine ==
    /\ [](BatchOpen =>
            LET out == GuardHandle(app, Selection("Down", "SingleLine"), settings, checks)
            IN  IF app.selected = 0
                THEN out.flow = "Break" /\ out.result = <<>>
                ELSE /\ out.flow = "Continue"
                     /\ out.state = [app EXCEPT !.selected = app.selected - 1])
    /\ [][Ends(Selection("Down", "SingleLine")) =>
            /\ app.selected = 0
            /\ outcome' = "ok"
            /\ result' = <<>>]_vars

\* Down at the top of the list ended a session whose query was not empty.
C7_Witness ==
    /\ pc = "done"
    /\ event = Selection("Down", "SingleLine")
    /\ outcome = "ok"
    /\ result = <<>>
    /\ batch.initial_input # <<>>

\* C8: Exit ends the session in every state; the result is the current query
\* text under ReturnQuery and the empty string under ReturnOriginal.
ExitString(st, cfg) ==
    IF cfg.exit_mode = "ReturnQuery" THEN st.input.source ELSE <<>>

C8_Exit ==
    /\ [](BatchOpen =>
            LET out == GuardHandle(app, Exit, settings, checks)
            IN  out.flow = "Break" /\ out.result = ExitString(app, settings))
    /\ [][Ends(Exit) =>
            /\ outcome' = "ok"
            /\ result' = ExitString(app, settings)]_vars

\* Exit returned a query text that an edit of the same batch produced.
C8_Witness ==
    /\ pc = "done"
    /\ event = Exit
    /\ outcome = "ok"
    /\ settings.exit_mode = "ReturnQuery"
    /\ result # <<>>
    /\ result # batch.initial_input

\* C9: Cancel ends the loop with the empty string, whatever the session holds.
C9_Cancel ==
    /\ [](BatchOpen =>
            LET out == GuardHandle(app, Cancel, settings, checks)
            IN  out.flow = "Break" /\ out.result = <<>>)
    /\ [][Ends(Cancel) => outcome' = "ok" /\ result' = <<>>]_vars

\* Cancel ended a session that had a query text.
C9_Witness ==
    /\ pc = "done"
    /\ event = Cancel
    /\ outcome = "ok"
    /\ result = <<>>
    /\ batch.initial_input # <<>>

\* C10: four applications of CycleFilterMode return to the starting filter
\* mode; the modes in between are pairwise distinct and follow the order
\* Global -> Host -> Session -> Directory -> Global.
Successor(m) ==
    CASE m = "Global" -> "Host"
      [] m = "Host" -> "Session"
      [] m = "Session" -> "Directory"
      [] m = "Directory" -> "Global"

C10_CycleOfFour ==
    /\ \A i \in 1..(Len(run) - 1) : run[i + 1] = Successor(run[i])
    /\ \A i, j \in 1..Len(run) : (i < j /\ j <= 4) => run[i] # run[j]
    /\ Len(run) = 5 => run[5] = run[1]
    /\ run # <<>> => app.filter_mode = run[Len(run)]

\* Four applications have been made.
C10_Witness == Len(run) = 5 /\ run[5] = run[1] /\ run[1] # "Global"

\* The session after the first k of the raw inputs raws were converted and
\* handled one after the other, from session st on.
RECURSIVE Fold(_, _, _, _, _)
Fold(st, raws, k, cfg, chk) ==
    IF k = 0
    THEN Continue(st)
    ELSE LET prev == Fold(st, raws, k - 1, cfg, chk)
             ev == TryFrom(raws[k])
         IN  IF prev.flow # "Continue" THEN prev
             ELSE IF ev = Skip THEN prev
             ELSE GuardHandle(prev.state, ev, cfg, chk)

\* How many of the arrivals have been read.
Consumed == Len(run.arrived) - Len(pending)

Expected == Fold(run.session, run.arrived, Consumed, settings, checks)

\* C11: within one pass of the loop the buffered raw inputs are converted and
\* applied in their arrival order: while draining, the session is the result
\* of handling the arrivals read so far, first to last, and what is left in
\* the buffer is the rest of the arrivals; the commit, the invalidation of
\* the layout and the next render come only when all of them were applied.
C11_DrainInArrivalOrder ==
    /\ (pc = "drain" /\ outcome = "running") =>
          /\ Expected.flow = "Continue"
          /\ app = Expected.state
          /\ pending = SubSeq(run.arrived, Consumed + 1, Len(run.arrived))
          /\ layout # None
    /\ pc = "finish" =>
          /\ pending = <<>>
          /\ Expected.flow = "Continue"
          /\ app = Expected.state
          /\ layout # None
    /\ pc = "render" =>
          /\ pending = <<>>
          /\ Expected.flow = "Continue"
          /\ app.input = Expected.state.input
          /\ app.filter_mode = Expected.state.filter_mode
          /\ refreshes = 0 => app = Expected.state
    /\ event # NoEvent =>
          /\ Consumed > 0
          /\ event = TryFrom(run.arrived[Consumed])
          /\ Expected.flow # "Continue"
          /\ Fold(run.session, run.arrived, Consumed - 1, settings, checks).flow
                = "Continue"

\* A character was typed and then the line was cleared: the commit found the
\* text as it was, which the other order would not give.
C11_Witness ==
    /\ pc = "render"
    /\ run.arrived = <<KeyChar("a", FALSE, FALSE), KeyChar("u", TRUE, FALSE)>>
    /\ run.session.input.source = <<>>
    /\ app.input.source = <<>>
    /\ refreshes = 0

\* C12: when input is buffered and the version check resolves in the same
\* pass of the loop, both the buffered inputs and UpdateNeeded are applied
\* before the next render: a render that shows the notice finds nothing
\* left in the buffer from the pass that applied it.
C12_BothBeforeRender ==
    (pc = "render" /\ app.update_needed = Version) => pending = <<>>

\* C13: the blocking poll spawned in a pass is awaited before the session is
\* changed in that pass: while the loop is still at the select!, with the
\* poll not yet awaited, no step that stays in the loop changes the session.
C13_PollAwaitedBeforeMutation ==
    [][(pc = "select" /\ pc' \in {"select", "drain", "finish"}) => app' = app]_vars

\* C14: a refresh asks the storage for list(filter mode, limit 200) when the
\* query text is empty and for search(search mode, filter mode, query text,
\* limit 200) otherwise, with the text and the filter mode the session holds
\* at the commit; the result list becomes an answer to that call, of at most
\* 200 records, and the selection is 0.
ListCall(fm) ==
    [op |-> "list", search_mode |-> "None", filter_mode |-> fm, query |-> <<>>,
     limit |-> 200]

SearchCall(sm, fm, text) ==
    [op |-> "search", search_mode |-> sm, filter_mode |-> fm, query |-> text,
     limit |-> 200]

CallFor(st, cfg) ==
    IF Len(st.input.source) = 0
    THEN ListCall(st.filter_mode)
    ELSE SearchCall(cfg.search_mode, st.filter_mode, st.input.source)

C14_RefreshCall ==
    /\ [][(pc \in {"state_new", "finish"} /\ pc' = "render"
             /\ refreshes' = refreshes + (IF pc = "finish" THEN 1 ELSE 0)) =>
            /\ request' = CallFor(app, settings)
            /\ Len(app'.history) <= 200
            /\ Len(app'.history) <= request'.limit
            /\ app'.history \in DbAnswers
            /\ app'.selected = 0
            /\ app'.input = app.input
            /\ app'.filter_mode = app.filter_mode]_vars
    /\ [][request' # request => \/ pc \in {"state_new", "finish"} /\ pc' = "render"
                                \/ request' = NoRequest]_vars

\* A commit searched for a text typed in the pass, and got records.
C14_Witness ==
    /\ pc = "render"
    /\ refreshes = 1
    /\ request = SearchCall("Fuzzy", app.filter_mode, <<"a">>)
    /\ batch.initial_input = <<>>
    /\ app.input.source = <<"a">>
    /\ app.selected = 0
    /\ Len(app.history) = MaxResults

\* C15: a refresh that fails ends `history` with the error: every refresh a
\* commit issues either succeeds or leaves the loop with outcome "err", and
\* after an error nothing is refreshed, handled or rendered any more.
C15_RefreshErrorPropagates ==
    /\ [][(pc = "finish" /\ refreshes' = refreshes + 1) =>
            \/ /\ outcome' = "err"
               /\ pc' \in {"drop", "done"}
               /\ result' = <<>>
            \/ /\ outcome' = "running"
               /\ did_update'
               /\ request' = CallFor(app, settings)
               /\ pc' = "render"]_vars
    /\ [](outcome = "err" => pc \in {"drop", "done"})
    /\ [][outcome = "err" =>
            /\ pc' = "done"
            /\ UNCHANGED <<app, event, pending, refreshes, request, layout,
                           outcome, result>>]_vars

\* The refresh of a commit failed and `history` returned the error.
C15_Witness ==
    /\ pc = "done"
    /\ outcome = "err"
    /\ refreshes = 1
    /\ event = NoEvent

\* C16: a raw input yields at most one event; an unsupported one (resize,
\* focus change, paste, a key without a binding, a mouse action other than
\* scrolling) yields none, reading it leaves the session, the snapshot, the
\* layout and the refresh count as they are, and a pass that read nothing
\* else commits without a refresh.
Unsupported(raw) ==
    \/ raw.kind \in {"Resize", "FocusGained", "FocusLost", "Paste"}
    \/ raw.kind = "Mouse" /\ raw.code \notin {"ScrollDown", "ScrollUp"}
    \/ raw.kind = "Key" /\ raw.code = "Tab"

C16_UnsupportedDropped ==
    /\ [](\A raw \in RawInputs :
            /\ Cardinality(Read(raw)) = 1
            /\ Unsupported(raw) => Read(raw) = {Skip})
    /\ [][(pc = "drain" /\ pending # <<>> /\ Unsupported(Head(pending))
             /\ outcome' = "running") =>
            /\ pending' = Tail(pending)
            /\ pc' = "drain"
            /\ UNCHANGED <<app, batch, event, notif, layout, did_update,
                           refreshes, request, outcome, result>>]_vars
    /\ []((pc = "render" /\ \A i \in DOMAIN run.arrived : Unsupported(run.arrived[i])) =>
            /\ app = run.session
            /\ refreshes = 0
            /\ ~did_update
            /\ layout # None)

\* A pass read a key without a binding and a resize, and committed.
C16_Witness ==
    /\ pc = "render"
    /\ run.arrived = <<Key("Tab", FALSE, FALSE), Raw("Resize", "", "", FALSE, FALSE)>>
    /\ app = run.session
    /\ refreshes = 0

\* C17: UpdateNeeded(version) stores the version as the pending notice and
\* leaves the session open with everything else as it was; the pass that
\* handled nothing else commits without a refresh and keeps the layout.
C17_UpdateNeeded ==
    /\ [](BatchOpen =>
            LET out == GuardHandle(app, UpdateNeeded(Version), settings, checks)
            IN  /\ out.flow = "Continue"
                /\ out.state = [app EXCEPT !.update_needed = Version])
    /\ [](pc = "select" => /\ app.input.source = batch.initial_input
                           /\ app.filter_mode = batch.initial_filter_mode)
    /\ [][(pc = "select" /\ notif = "pending" /\ notif' = "done" /\ pc' = "finish") =>
            /\ app' = [app EXCEPT !.update_needed = Version]
            /\ UNCHANGED <<batch, pending, layout, refreshes, request, outcome>>]_vars
    /\ [][(pc = "finish" /\ app.input.source = batch.initial_input
             /\ app.filter_mode = batch.initial_filter_mode) =>
            /\ pc' = "render"
            /\ ~did_update'
            /\ UNCHANGED <<app, layout, refreshes, request, outcome>>]_vars

\* The notice is shown by a render that follows the pass of the
\* notification branch: input that was buffered then is still unread.
C17_Witness ==
    /\ pc = "render"
    /\ app.update_needed = Version
    /\ pending # <<>>
    /\ layout # None
    /\ refreshes = 0
    /\ ~did_update

\* C18: when no input ever arrives, the loop renders again and again as long
\* as it has not ended: from the wait and from the commit it comes to the
\* next render, or `history` ends.
C18_RendersAgain ==
    [](pc \in {"select", "finish"} => <>(pc = "render" \/ outcome # "running"))

\* A render that follows a pass in which nothing happened but the timeout.
C18_Witness ==
    /\ pc = "render"
    /\ batch # NoBatch
    /\ notif = "done"
    /\ app.update_needed = "None"
    /\ pending = <<>>
    /\ outcome = "running"

\* C19: the layout a render leaves has the preview height that the longest
\* command of the result list shown by that render gives (capped at 4 lines).
C19_PreviewHeightOfCurrentList ==
    pc = "select" =>
        /\ layout # None
        /\ layout[1].preview_height
             = PreviewHeight(LongestCommand(app.history), layout[1].size[1],
                             layout[1].compact, settings.show_preview)

\* C20: a Selection event handled by a session whose result list is empty
\* never faults and leaves the selection at 0; the Up events leave the
\* session open.
C20_SelectionOnEmptyList ==
    [][(event = NoEvent /\ Len(app.history) = 0 /\ event' \in SelectionEvents) =>
         /\ outcome' # "panic"
         /\ app'.selected = 0
         /\ event'.a = "Up" => outcome' = "running"]_vars

\* C21: whenever the loop is about to render, the selection index refers to
\* a record of the result list, so the preview's lookup of the selected
\* record is in bounds.
C21_SelectionInBoundsAtRender ==
    pc = "render" => (app.selected >= 0 /\ app.selected < Len(app.history))

\* C22: whenever the loop is about to render, the last call made to the
\* storage is the one for the query text and the filter mode the session
\* holds, and the result list is what that call returned: it changes only
\* in the step that makes a call.
C22_ResultsMatchQuery ==
    /\ [](pc = "render" => /\ request = CallFor(app, settings)
                           /\ request.query = app.input.source
                           /\ request.filter_mode = app.filter_mode)
    /\ [][(InLoop /\ InLoop' /\ app'.history # app.history) =>
            /\ pc = "finish"
            /\ refreshes' = refreshes + 1
            /\ request' = CallFor(app, settings)]_vars
    /\ [][(InLoop /\ InLoop' /\ request' # request) =>
            /\ pc = "finish"
            /\ refreshes' = refreshes + 1]_vars

\* A pass moved the selection and the caret but neither the text nor the
\* filter mode: the render after it shows the list of an earlier search.
C22_Witness ==
    /\ pc = "render"
    /\ batch # NoBatch
    /\ refreshes = 0
    /\ app.selected > 0
    /\ request.op = "search"
    /\ app.input.index = 0

====
